---- MODULE Spec2Model ----
(***************************************************************************)
(* Model of wiktionary-part-of-speech-extract: the TagSet bitmask algebra  *)
(* and the TagsBuilder / TagsLookup wrappers of src/tags.rs, the page      *)
(* extractor of src/bin/regenerate/parse.rs and the streaming main loop    *)
(* and aggregator of src/bin/regenerate/regenerate.rs.                     *)
(*                                                                         *)
(* Representation choices:                                                 *)
(*  - a u32 / u64 is the set of the positions of its 1 bits (a subset of   *)
(*    0..31 / 0..63), so `|` is union, `& !` is set difference, `1 << n`   *)
(*    is {n} and `as u32` keeps the positions below 32;                    *)
(*  - a String compared or normalised by the code (titles, map keys) is    *)
(*    the sequence of its code points; byte order of UTF-8 strings is the  *)
(*    lexicographic order of the code points;                              *)
(*  - a markup token (template name) is an atomic string;                  *)
(*  - a line of a corpus file is a sequence of atoms: the markers the      *)
(*    regexes and substring tests of the code look for.                    *)
(***************************************************************************)
EXTENDS Integers, Sequences, FiniteSets, TLC

VARIABLES
    \* ---- regenerate.rs main: the build run ----
    corpus,           \* the kind of corpus given: arbitrary lines or well-formed pages
    files,            \* the corpus files opened so far, each the lines read from it so far
    page,             \* `page` buffer: the lines pushed since the last clear
    is_inside_page,   \* `is_inside_page`
    pages,            \* `pages`: Vec<PageInfo>
    tag_counter,      \* `tag_counter`: UstrMap<usize>
    options,          \* FSTOptions handed to build_fst_from_pages
    pages_sorted,     \* build_fst_from_pages: the vector handed to extend_iter
    artifact,         \* the file at fst_path
    pc,               \* position of the run
    err,              \* the error main returned with, if any
    emitted,          \* history: the page texts handed to parse_page
    \* ---- TagsBuilder / TagsLookup used as a library ----
    tb,               \* a TagsBuilder<Vec<u8>>
    call,             \* the last call made on the builder / lookup
    ret,              \* what that call returned: "Ok", "Err" or "Panic"
    got,              \* what the last TagsLookup::get returned
    log,              \* history: the (key, TagSet) pairs given to calls that returned Ok
    clean,            \* history: no insertion call has failed so far
    \* ---- TagSet used as a library ----
    t_in,             \* the tags given to TagSet::of
    t_set,            \* the TagSet made from them
    t_out,            \* what TagSet::tags yielded
    t_art,            \* the bytes of an in-memory map holding that TagSet
    t_got,            \* what TagsLookup::get returned for the stored TagSet
    t_pc

runVars == <<corpus, files, page, is_inside_page, pages, tag_counter, options,
             pages_sorted, artifact, pc, err, emitted>>
libVars == <<tb, call, ret, got, log, clean>>
tagVars == <<t_in, t_set, t_out, t_art, t_got, t_pc>>
vars == <<runVars, libVars, tagVars>>

-----------------------------------------------------------------------------
(* Bounds *)

MaxTags == 3        \* longest tag sequence given to TagSet::of

MaxIter == 2        \* longest iterator given to TagsBuilder::extend_iter

MaxLines == 4       \* most lines read in a run over arbitrary lines

MaxFiles == 2       \* most corpus files opened in a run over arbitrary lines

MaxWFPages == 2     \* most pages in a corpus file of well-formed pages

MaxPages == 3       \* most page records given to build_fst_from_pages directly

MaxAtoms == 4       \* most atoms in a page text given to parse_page directly

-----------------------------------------------------------------------------
(* Generic helpers *)

SeqsUpTo(S, n) == UNION {[1..k -> S] : k \in 0..n}

Range(s) == {s[i] : i \in DOMAIN s}

SetMax(S) == CHOOSE x \in S : \A y \in S : y <= x

SetMin(S) == CHOOSE x \in S : \A y \in S : x <= y

NoVal == [some |-> FALSE, bits |-> {}]

Some(m) == [some |-> TRUE, bits |-> m]

-----------------------------------------------------------------------------
(* src/tags.rs: Tag *)

Tag == <<"Adjective", "Adverb", "Conjunction", "Determiner", "Interjection",
         "Noun", "Numeral", "Particle", "Postposition", "Preposition",
         "Pronoun", "ProperNoun", "Verb">>

Tags == Range(Tag)

\* 1 << n
Shl1(n) == {n}

\* mutant: Verb shifted one place too far
Tag_to_mask_verb_past_end(tag) ==
    Shl1(CASE tag = "Adjective" -> 1
           [] tag = "Adverb" -> 2
           [] tag = "Conjunction" -> 3
           [] tag = "Determiner" -> 4
           [] tag = "Interjection" -> 5
           [] tag = "Noun" -> 6
           [] tag = "Numeral" -> 7
           [] tag = "Particle" -> 8
           [] tag = "Postposition" -> 9
           [] tag = "Preposition" -> 10
           [] tag = "Pronoun" -> 11
           [] tag = "ProperNoun" -> 12
           [] tag = "Verb" -> 14)

\* mutant: Numeral given the shift of Noun
Tag_to_mask_dup_shift(tag) ==
    Shl1(CASE tag = "Adjective" -> 1
           [] tag = "Adverb" -> 2
           [] tag = "Conjunction" -> 3
           [] tag = "Determiner" -> 4
           [] tag = "Interjection" -> 5
           [] tag = "Noun" -> 6
           [] tag = "Numeral" -> 6
           [] tag = "Particle" -> 8
           [] tag = "Postposition" -> 9
           [] tag = "Preposition" -> 10
           [] tag = "Pronoun" -> 11
           [] tag = "ProperNoun" -> 12
           [] tag = "Verb" -> 13)

Tag_to_mask(tag) ==
    Shl1(CASE tag = "Adjective" -> 1
           [] tag = "Adverb" -> 2
           [] tag = "Conjunction" -> 3
           [] tag = "Determiner" -> 4
           [] tag = "Interjection" -> 5
           [] tag = "Noun" -> 6
           [] tag = "Numeral" -> 7
           [] tag = "Particle" -> 8
           [] tag = "Postposition" -> 9
           [] tag = "Preposition" -> 10
           [] tag = "Pronoun" -> 11
           [] tag = "ProperNoun" -> 12
           [] tag = "Verb" -> 13)

\* mutant: variants numbered from 0
Tag_from_u32_zero_based(i) ==
    IF i \in 0..12 THEN Tag[i + 1] ELSE "PANIC"

\* "PANIC" stands for the panic!("Invalid Tag variant ...") arm
Tag_from_u32(i) ==
    CASE i = 1 -> "Adjective"
      [] i = 2 -> "Adverb"
      [] i = 3 -> "Conjunction"
      [] i = 4 -> "Determiner"
      [] i = 5 -> "Interjection"
      [] i = 6 -> "Noun"
      [] i = 7 -> "Numeral"
      [] i = 8 -> "Particle"
      [] i = 9 -> "Postposition"
      [] i = 10 -> "Preposition"
      [] i = 11 -> "Pronoun"
      [] i = 12 -> "ProperNoun"
      [] i = 13 -> "Verb"
      [] OTHER -> "PANIC"

-----------------------------------------------------------------------------
(* src/tags.rs: TagSet(u32) *)

U32Bits == 0..31

AsU64(m) == m

AsU32(v) == v \cap U32Bits

TagSet_default == {}

TagSet_from_mask(mask) == mask

TagSet_is_empty(self) == self = {}

TagSet_to_mask(self) == self

TagSet_insert_tag(self, tag) == self \cup Tag_to_mask(tag)

TagSet_remove_tag_set(self, tag_set) == self \cap (U32Bits \ tag_set)

\* mutant: the entry is overwritten instead of ORed (`=` for `|=`)
TagSet_extend_overwrite(self, other) == other

TagSet_extend(self, other) == self \cup other

TagSet_insert_tag_mask(self, tag) == self \cup tag

RECURSIVE TagSet_of_fold(_, _)
TagSet_of_fold(acc, from) ==
    IF from = <<>> THEN acc
    ELSE TagSet_of_fold(TagSet_insert_tag(acc, Head(from)), Tail(from))

TagSet_of(from) == TagSet_of_fold(TagSet_default, from)

leading_zeros(m) == IF m = {} THEN 32 ELSE 31 - SetMax(m)

trailing_zeros(m) == IF m = {} THEN 32 ELSE SetMin(m)

\* repeat(self.0).take(32 - lz).enumerate().skip(tz).flat_map(...):
\* the indices tz .. 32 - lz - 1 in ascending order, each yielding
\* Tag::from_u32(i) when bit i is set.
RECURSIVE TagSet_tags_from(_, _, _)
TagSet_tags_from(self, i, end) ==
    IF i >= end THEN <<>>
    ELSE (IF (self \cap Shl1(i)) # {} THEN <<Tag_from_u32(i)>> ELSE <<>>)
         \o TagSet_tags_from(self, i + 1, end)

TagSet_tags(self) ==
    TagSet_tags_from(self, trailing_zeros(self), 32 - leading_zeros(self))

-----------------------------------------------------------------------------
(* Strings as sequences of code points *)

\* <[u8] as Ord>::cmp(a, b) = Less
StrLess(a, b) ==
    \E i \in 1..(Len(a) + 1) :
        /\ \A j \in 1..(i - 1) : j <= Len(b) /\ a[j] = b[j]
        /\ i <= Len(b)
        /\ (i > Len(a) \/ a[i] < b[i])

\* char::to_ascii_lowercase: only 'A'..'Z' change
to_ascii_lowercase_char(c) == IF c >= 65 /\ c <= 90 THEN c + 32 ELSE c

to_ascii_lowercase(s) == [i \in DOMAIN s |-> to_ascii_lowercase_char(s[i])]

\* char::to_lowercase on ASCII and Latin-1 letters
to_lowercase_char(c) ==
    IF c >= 65 /\ c <= 90 THEN c + 32
    ELSE IF c >= 192 /\ c <= 222 /\ c # 215 THEN c + 32
    ELSE c

to_lowercase(s) == [i \in DOMAIN s |-> to_lowercase_char(s[i])]

\* unidecode of one char: ASCII is kept, a Latin-1 letter becomes its closest
\* ASCII spelling (one char may become several, or none)
unidecode_char(c) ==
    IF c < 128 THEN <<c>>
    ELSE CASE c = 193 -> <<65>>          \* A-acute -> "A"
           [] c = 225 -> <<97>>          \* a-acute -> "a"
           [] c = 250 -> <<117>>         \* u-acute -> "u"
           [] c = 230 -> <<97, 101>>     \* ae ligature -> "ae"
           [] OTHER -> <<>>

RECURSIVE unidecode(_)
unidecode(s) ==
    IF s = <<>> THEN <<>> ELSE unidecode_char(Head(s)) \o unidecode(Tail(s))

-----------------------------------------------------------------------------
(* fst::MapBuilder / fst::Map: an ordered map built by monotonic insertion. *)
(* A builder or a finished map is the sequence of its (key, value) entries. *)

Entry(key, val) == [key |-> key, val |-> val]

fst_builder_memory == <<>>

\* MapBuilder::insert: Err (and no change) unless key > the last key inserted
fst_insert(entries, key, val) ==
    IF entries # <<>> /\ ~StrLess(entries[Len(entries)].key, key)
    THEN [ok |-> FALSE, entries |-> entries]
    ELSE [ok |-> TRUE, entries |-> Append(entries, Entry(key, val))]

\* MapBuilder::extend_iter: insert each item in turn, stop at the first Err
RECURSIVE fst_extend_iter(_, _)
fst_extend_iter(entries, iter) ==
    IF iter = <<>> THEN [ok |-> TRUE, entries |-> entries]
    ELSE LET r == fst_insert(entries, Head(iter).key, Head(iter).val)
         IN  IF r.ok THEN fst_extend_iter(r.entries, Tail(iter)) ELSE r

\* Map::get: the value of the entry with exactly this key
fst_get(entries, key) ==
    IF \E i \in DOMAIN entries : entries[i].key = key
    THEN Some(entries[CHOOSE i \in DOMAIN entries : entries[i].key = key].val)
    ELSE NoVal

-----------------------------------------------------------------------------
(* src/tags.rs: TagsBuilder, TagsLookup *)

TagsBuilder_in_memory == fst_builder_memory

TagsBuilder_into_inner(self) == self

\* .unwrap() of the insertion error is a panic
TagsBuilder_insert_tag(self, key, tag) ==
    LET r == fst_insert(self, key, AsU64(Tag_to_mask(tag)))
    IN  [ret |-> IF r.ok THEN "Ok" ELSE "Panic", tb |-> r.entries]

\* mutant: the insertion error is dropped (`let _ = self.0.insert(..)`)
TagsBuilder_insert_tag_set_ignore_err(self, key, tag_set) ==
    LET r == fst_insert(self, key, AsU64(TagSet_to_mask(tag_set)))
    IN  [ret |-> "Ok", tb |-> r.entries]

TagsBuilder_insert_tag_set(self, key, tag_set) ==
    LET r == fst_insert(self, key, AsU64(TagSet_to_mask(tag_set)))
    IN  [ret |-> IF r.ok THEN "Ok" ELSE "Err", tb |-> r.entries]

\* iter: a sequence of [key, val] with val a TagSet
TagsBuilder_extend_iter(self, iter) ==
    LET r == fst_extend_iter(self,
                 [i \in DOMAIN iter |->
                     Entry(iter[i].key, AsU64(TagSet_to_mask(iter[i].val)))])
    IN  [ret |-> IF r.ok THEN "Ok" ELSE "Err", tb |-> r.entries]

TagsBuilder_finish(self) == self

TagsLookup_new(data) == data

\* mutant: the stored value narrowed to 16 bits (`mask as u16`)
TagsLookup_get_u16(self, key) ==
    LET r == fst_get(self, key)
    IN  IF r.some THEN Some(TagSet_from_mask(r.bits \cap 0..15)) ELSE NoVal

TagsLookup_get(self, key) ==
    LET r == fst_get(self, key)
    IN  IF r.some THEN Some(TagSet_from_mask(AsU32(r.bits))) ELSE NoVal

-----------------------------------------------------------------------------
(* TagSet as a library: of, tags, and one TagSet stored in and read back    *)
(* from an in-memory map (the usage example of src/lib.rs).                 *)

\* "harbor"
DocKey == <<104, 97, 114, 98, 111, 114>>

TagSeqs == SeqsUpTo(Tags, MaxTags)

TS_Of ==
    /\ t_pc = "start"
    /\ t_set' = TagSet_of(t_in)
    /\ t_pc' = "made"
    /\ UNCHANGED <<t_in, t_out, t_art, t_got>>
    /\ UNCHANGED <<runVars, libVars>>

TS_Tags ==
    /\ t_pc = "made"
    /\ t_out' = TagSet_tags(t_set)
    /\ t_pc' = "listed"
    /\ UNCHANGED <<t_in, t_set, t_art, t_got>>
    /\ UNCHANGED <<runVars, libVars>>

TS_Store ==
    /\ t_pc = "listed"
    /\ t_art' = TagsBuilder_into_inner(
                    TagsBuilder_insert_tag_set(TagsBuilder_in_memory, DocKey, t_set).tb)
    /\ t_pc' = "stored"
    /\ UNCHANGED <<t_in, t_set, t_out, t_got>>
    /\ UNCHANGED <<runVars, libVars>>

TS_Load ==
    /\ t_pc = "stored"
    /\ t_got' = TagsLookup_get(TagsLookup_new(t_art), DocKey)
    /\ t_pc' = "loaded"
    /\ UNCHANGED <<t_in, t_set, t_out, t_art>>
    /\ UNCHANGED <<runVars, libVars>>

-----------------------------------------------------------------------------
(* Parts of the state a specification does not use *)

NoCall == [op |-> "none", key |-> <<>>, val |-> {}, iter |-> <<>>]

NoArtifact == [created |-> FALSE, finished |-> FALSE, entries |-> <<>>]

\* main() lines 93-96
MainOptions == [exclude_pages_which_have_only_nouns |-> TRUE,
                flatten_unicode |-> TRUE]

RunIdle ==
    /\ corpus = "none"
    /\ files = <<>>
    /\ page = <<>>
    /\ is_inside_page = FALSE
    /\ pages = <<>>
    /\ tag_counter = <<>>
    /\ options = MainOptions
    /\ pages_sorted = <<>>
    /\ artifact = NoArtifact
    /\ pc = "idle"
    /\ err = "none"
    /\ emitted = <<>>

LibIdle ==
    /\ tb = [st |-> "idle", entries |-> <<>>]
    /\ call = NoCall
    /\ ret = "none"
    /\ got = NoVal
    /\ log = <<>>
    /\ clean = TRUE

TagIdle ==
    /\ t_in = <<>>
    /\ t_set = {}
    /\ t_out = <<>>
    /\ t_art = <<>>
    /\ t_got = NoVal
    /\ t_pc = "idle"

-----------------------------------------------------------------------------
(* Specification of the TagSet library use *)

InitTags ==
    /\ t_in \in TagSeqs
    /\ t_set = {}
    /\ t_out = <<>>
    /\ t_art = <<>>
    /\ t_got = NoVal
    /\ t_pc = "start"
    /\ RunIdle
    /\ LibIdle

NextTags == TS_Of \/ TS_Tags \/ TS_Store \/ TS_Load

SpecTags == InitTags /\ [][NextTags]_vars

\* position of a tag in the declaration order of enum Tag (1-based)
TagIndex(tag) == CHOOSE i \in DOMAIN Tag : Tag[i] = tag

\* C7: TagSet::of(tags).tags() yields exactly the distinct tags given, each
\* once, in ascending canonical order, whatever the order and the duplicates
\* of the input; nothing for the empty input.
C7_TagsRoundTrip ==
    t_pc \in {"listed", "stored", "loaded"} =>
        /\ Range(t_out) = Range(t_in)
        /\ Len(t_out) = Cardinality(Range(t_in))
        /\ \A i, j \in DOMAIN t_out :
               i < j => TagIndex(t_out[i]) < TagIndex(t_out[j])

C7_Witness ==
    /\ t_pc = "listed"
    /\ t_in = <<"Verb", "Adjective", "Verb">>
    /\ t_out = <<"Adjective", "Verb">>

\* C8 as stated: every TagSet mask and every value stored in the map uses
\* only bits 0..12, bit k set exactly when the k-th of the 13 tags
\* (counting from 0) is present.
C8_Bits0To12 ==
    /\ t_pc # "start" =>
           /\ t_set \subseteq 0..12
           /\ \A k \in 0..12 : (k \in t_set) <=> (Tag[k + 1] \in Range(t_in))
    /\ \A i \in DOMAIN t_art :
           /\ t_art[i].val \subseteq 0..12
           /\ \A k \in 0..12 :
                  (k \in t_art[i].val) <=> (Tag[k + 1] \in Range(t_in))

\* C8 amended: every TagSet mask and every value stored in the map uses only
\* bits 1..13, bit k set exactly when the k-th of the 13 tags (counting from
\* 1) is present; bit 0 and bits 14..31 (14..63 of the stored u64) are zero.
C8_Bits1To13 ==
    /\ t_pc # "start" =>
           /\ t_set \subseteq 1..13
           /\ \A k \in 1..13 : (k \in t_set) <=> (Tag[k] \in Range(t_in))
    /\ \A i \in DOMAIN t_art :
           /\ t_art[i].val \subseteq 1..13
           /\ \A k \in 1..13 :
                  (k \in t_art[i].val) <=> (Tag[k] \in Range(t_in))

C8_Witness ==
    /\ t_pc = "loaded"
    /\ t_in = <<"Verb", "Adjective">>
    /\ t_set = {1, 13}
    /\ t_art = <<Entry(DocKey, {1, 13})>>

-----------------------------------------------------------------------------
(* TagsBuilder / TagsLookup as a library: a caller makes any sequence of   *)
(* insertions on an in-memory builder, takes the bytes and looks keys up.  *)

\* "Cat", "bat", "cat"
LibKeys == {<<67, 97, 116>>, <<98, 97, 116>>, <<99, 97, 116>>}

\* {}, {Noun}, {Noun, Verb}, and a raw mask using the lowest and highest bit
LibTagSets == {TagSet_default, TagSet_of(<<"Noun">>),
               TagSet_of(<<"Noun", "Verb">>),
               TagSet_insert_tag_mask(TagSet_default, {0, 31})}

LibIterItems == {Entry(k, TagSet_of(<<"Verb">>)) : k \in LibKeys}

LibIters == SeqsUpTo(LibIterItems, MaxIter)

InitBuilder ==
    /\ tb = [st |-> "open", entries |-> TagsBuilder_in_memory]
    /\ call = NoCall
    /\ ret = "none"
    /\ got = NoVal
    /\ log = <<>>
    /\ clean = TRUE
    /\ RunIdle
    /\ TagIdle

TB_InsertTag ==
    /\ tb.st = "open"
    /\ \E key \in LibKeys, tag \in {"Noun", "Verb"} :
         LET r == TagsBuilder_insert_tag(tb.entries, key, tag)
         IN  /\ call' = [op |-> "insert_tag", key |-> key,
                         val |-> TagSet_of(<<tag>>), iter |-> <<>>]
             /\ ret' = r.ret
             /\ tb' = [st |-> IF r.ret = "Panic" THEN "panicked" ELSE "open",
                       entries |-> r.tb]
             /\ log' = IF r.ret = "Ok"
                       THEN Append(log, Entry(key, TagSet_of(<<tag>>))) ELSE log
             /\ clean' = (clean /\ r.ret = "Ok")
    /\ UNCHANGED got
    /\ UNCHANGED <<runVars, tagVars>>

TB_InsertTagSet ==
    /\ tb.st = "open"
    /\ \E key \in LibKeys, tag_set \in LibTagSets :
         LET r == TagsBuilder_insert_tag_set(tb.entries, key, tag_set)
         IN  /\ call' = [op |-> "insert_tag_set", key |-> key,
                         val |-> tag_set, iter |-> <<>>]
             /\ ret' = r.ret
             /\ tb' = [st |-> "open", entries |-> r.tb]
             /\ log' = IF r.ret = "Ok" THEN Append(log, Entry(key, tag_set)) ELSE log
             /\ clean' = (clean /\ r.ret = "Ok")
    /\ UNCHANGED got
    /\ UNCHANGED <<runVars, tagVars>>

TB_ExtendIter ==
    /\ tb.st = "open"
    /\ \E iter \in LibIters :
         LET r == TagsBuilder_extend_iter(tb.entries, iter)
         IN  /\ call' = [op |-> "extend_iter", key |-> <<>>, val |-> {},
                         iter |-> iter]
             /\ ret' = r.ret
             /\ tb' = [st |-> "open", entries |-> r.tb]
             /\ log' = IF r.ret = "Ok" THEN log \o iter ELSE log
             /\ clean' = (clean /\ r.ret = "Ok")
    /\ UNCHANGED got
    /\ UNCHANGED <<runVars, tagVars>>

\* into_inner: the builder is consumed, its bytes become the lookup's data
TB_IntoInner ==
    /\ tb.st = "open"
    /\ tb' = [st |-> "finished",
              entries |-> TagsLookup_new(TagsBuilder_into_inner(tb.entries))]
    /\ call' = [op |-> "into_inner", key |-> <<>>, val |-> {}, iter |-> <<>>]
    /\ ret' = "Ok"
    /\ UNCHANGED <<got, log, clean>>
    /\ UNCHANGED <<runVars, tagVars>>

TL_Get ==
    /\ tb.st = "finished"
    /\ \E key \in LibKeys :
         /\ call' = [op |-> "get", key |-> key, val |-> {}, iter |-> <<>>]
         /\ got' = TagsLookup_get(tb.entries, key)
    /\ ret' = "Ok"
    /\ UNCHANGED <<tb, log, clean>>
    /\ UNCHANGED <<runVars, tagVars>>

NextBuilder ==
    TB_InsertTag \/ TB_InsertTagSet \/ TB_ExtendIter \/ TB_IntoInner \/ TL_Get

SpecBuilder == InitBuilder /\ [][NextBuilder]_vars

\* the key a new key has to exceed: the last one inserted, if any
LastKey(entries) == entries[Len(entries)].key

\* item i of iter does not exceed the key presented before it
OutOfOrderAt(entries, iter, i) ==
    IF i = 1 THEN entries # <<>> /\ ~StrLess(LastKey(entries), iter[1].key)
    ELSE ~StrLess(iter[i - 1].key, iter[i].key)

\* C5: once a key k has been inserted, an insertion of a key k' <= k (smaller
\* or equal) is reported as a failure (Err from insert_tag_set and
\* extend_iter, a panic from insert_tag) and the offending key is not taken
\* into the builder: the entries stay as they were (for extend_iter, as they
\* were plus the items before the first offending one).
C5_Step ==
    /\ (/\ call'.op \in {"insert_tag", "insert_tag_set"}
        /\ tb.st = "open"
        /\ tb.entries # <<>>
        /\ ~StrLess(LastKey(tb.entries), call'.key))
       => /\ ret' = IF call'.op = "insert_tag" THEN "Panic" ELSE "Err"
          /\ tb'.entries = tb.entries
    /\ (/\ call'.op = "extend_iter"
        /\ tb.st = "open"
        /\ \E i \in DOMAIN call'.iter : OutOfOrderAt(tb.entries, call'.iter, i))
       => LET bad == SetMin({i \in DOMAIN call'.iter :
                                OutOfOrderAt(tb.entries, call'.iter, i)})
          IN  /\ ret' = "Err"
              /\ tb'.entries = tb.entries \o SubSeq(call'.iter, 1, bad - 1)

C5_RejectsNonAscending == [][C5_Step]_vars

\* "bat" offered after "cat", and "cat" offered twice
C5_Witness ==
    /\ tb.entries = <<Entry(<<99, 97, 116>>, TagSet_of(<<"Noun">>))>>
    /\ call.op = "insert_tag_set"
    /\ call.key \in {<<98, 97, 116>>, <<99, 97, 116>>}
    /\ ret = "Err"

\* C6: when every insertion was accepted (the keys came strictly ascending),
\* get on the finished bytes returns Some of exactly the TagSet inserted
\* for an inserted key and None for a key never inserted.
C6_RoundTrip ==
    (tb.st = "finished" /\ call.op = "get" /\ clean) =>
        IF \E i \in DOMAIN log : log[i].key = call.key
        THEN \A i \in DOMAIN log : log[i].key = call.key => got = Some(log[i].val)
        ELSE got = NoVal

\* "Cat" and "cat" inserted; "cat" read back with its own value
C6_Witness ==
    /\ tb.st = "finished"
    /\ clean
    /\ log = <<Entry(<<67, 97, 116>>, TagSet_of(<<"Noun">>)),
               Entry(<<99, 97, 116>>, {0, 31})>>
    /\ call.op = "get"
    /\ call.key = <<99, 97, 116>>
    /\ got = Some({0, 31})

-----------------------------------------------------------------------------
(* src/bin/regenerate/parse.rs: the alias table and ParserRegexes::default *)

TAG_ALIASES == <<
    [tag |-> "Adjective", aliases |-> <<
        <<101, 110, 45, 97, 100, 106>>,   \* "en-adj"
        <<101, 110, 45, 97, 100, 106, 101, 99, 116, 105, 118, 101>>,   \* "en-adjective"
        <<101, 110, 124, 104, 101, 97, 100, 124, 97, 100, 106>>,   \* "en|head|adj"
        <<101, 110, 124, 104, 101, 97, 100, 124, 97, 100, 106, 101, 99, 116, 105, 118, 101>>,   \* "en|head|adjective"
        <<104, 101, 97, 100, 124, 101, 110, 124, 97, 100, 106, 101, 99, 116, 105, 118, 101>>   \* "head|en|adjective"
    >>],
    [tag |-> "Adverb", aliases |-> <<
        <<101, 110, 45, 97, 100, 118>>,   \* "en-adv"
        <<101, 110, 45, 97, 100, 118, 101, 114, 98>>,   \* "en-adverb"
        <<101, 110, 124, 104, 101, 97, 100, 124, 97, 100, 118>>,   \* "en|head|adv"
        <<101, 110, 124, 104, 101, 97, 100, 124, 97, 100, 118, 101, 114, 98>>,   \* "en|head|adverb"
        <<104, 101, 97, 100, 124, 101, 110, 124, 97, 100, 118, 101, 114, 98>>   \* "head|en|adverb"
    >>],
    [tag |-> "Conjunction", aliases |-> <<
        <<101, 110, 45, 99, 111, 110>>,   \* "en-con"
        <<101, 110, 45, 99, 111, 110, 106>>,   \* "en-conj"
        <<101, 110, 45, 99, 111, 110, 106, 117, 110, 99, 116, 105, 111, 110>>,   \* "en-conjunction"
        <<101, 110, 45, 99, 111, 110, 106, 45, 115, 105, 109, 112, 108, 101>>,   \* "en-conj-simple"
        <<101, 110, 124, 104, 101, 97, 100, 124, 99, 111, 110>>,   \* "en|head|con"
        <<101, 110, 124, 104, 101, 97, 100, 124, 99, 111, 110, 106>>,   \* "en|head|conj"
        <<101, 110, 124, 104, 101, 97, 100, 124, 99, 111, 110, 106, 117, 110, 99, 116, 105, 111, 110>>   \* "en|head|conjunction"
    >>],
    [tag |-> "Determiner", aliases |-> <<
        <<101, 110, 45, 100, 101, 116>>,   \* "en-det"
        <<101, 110, 124, 104, 101, 97, 100, 124, 100, 101, 116>>,   \* "en|head|det"
        <<104, 101, 97, 100, 124, 101, 110, 124, 100, 101, 116, 101, 114, 109, 105, 110, 101, 114>>   \* "head|en|determiner"
    >>],
    [tag |-> "Interjection", aliases |-> <<
        <<101, 110, 45, 105, 110, 116, 101, 114, 106>>,   \* "en-interj"
        <<101, 110, 45, 105, 110, 116, 101, 114, 106, 101, 99, 116, 105, 111, 110>>,   \* "en-interjection"
        <<101, 110, 45, 105, 110, 116, 106>>,   \* "en-intj"
        <<101, 110, 124, 104, 101, 97, 100, 124, 105, 110, 116, 101, 114, 106>>,   \* "en|head|interj"
        <<101, 110, 124, 104, 101, 97, 100, 124, 105, 110, 116, 101, 114, 106, 101, 99, 116, 105, 111, 110>>,   \* "en|head|interjection"
        <<104, 101, 97, 100, 124, 101, 110, 124, 105, 110, 116, 101, 114, 106, 101, 99, 116, 105, 111, 110>>   \* "head|en|interjection"
    >>],
    [tag |-> "Noun", aliases |-> <<
        <<101, 110, 45, 110, 111, 117, 110>>,   \* "en-noun"
        <<101, 110, 124, 104, 101, 97, 100, 124, 110, 111, 117, 110>>,   \* "en|head|noun"
        <<104, 101, 97, 100, 124, 101, 110, 124, 110, 111, 117, 110>>,   \* "head|en|noun"
        <<104, 101, 97, 100, 124, 101, 110, 124, 110, 111, 117, 110, 32, 102, 111, 114, 109>>,   \* "head|en|noun form"
        <<101, 110, 45, 112, 108, 117, 114, 97, 108, 32, 110, 111, 117, 110>>   \* "en-plural noun"
    >>],
    [tag |-> "Numeral", aliases |-> <<
        <<101, 110, 45, 110, 117, 109>>,   \* "en-num"
        <<101, 110, 124, 104, 101, 97, 100, 124, 110, 117, 109>>   \* "en|head|num"
    >>],
    [tag |-> "Particle", aliases |-> <<
        <<101, 110, 45, 112, 97, 114, 116>>,   \* "en-part"
        <<101, 110, 124, 104, 101, 97, 100, 124, 112, 97, 114, 116>>   \* "en|head|part"
    >>],
    [tag |-> "Postposition", aliases |-> <<
        <<101, 110, 45, 112, 111, 115, 116, 112>>,   \* "en-postp"
        <<101, 110, 124, 104, 101, 97, 100, 124, 112, 111, 115, 116, 112>>   \* "en|head|postp"
    >>],
    [tag |-> "Preposition", aliases |-> <<
        <<101, 110, 45, 112, 114, 101, 112>>,   \* "en-prep"
        <<101, 110, 124, 104, 101, 97, 100, 124, 112, 114, 101, 112>>   \* "en|head|prep"
    >>],
    [tag |-> "Pronoun", aliases |-> <<
        <<101, 110, 45, 112, 114, 111, 110>>,   \* "en-pron"
        <<101, 110, 124, 104, 101, 97, 100, 124, 112, 114, 111, 110>>   \* "en|head|pron"
    >>],
    [tag |-> "ProperNoun", aliases |-> <<
        <<101, 110, 45, 112, 114, 111, 112, 101, 114, 32, 110, 111, 117, 110>>,   \* "en-proper noun"
        <<101, 110, 124, 104, 101, 97, 100, 124, 112, 114, 111, 112, 101, 114, 32, 110, 111, 117, 110>>   \* "en|head|proper noun"
    >>],
    [tag |-> "Verb", aliases |-> <<
        <<101, 110, 45, 118, 101, 114, 98>>,   \* "en-verb"
        <<104, 101, 97, 100, 124, 101, 110, 124, 118, 101, 114, 98>>,   \* "head|en|verb"
        <<104, 101, 97, 100, 124, 101, 110, 124, 118, 101, 114, 98, 32, 102, 111, 114, 109>>   \* "head|en|verb form"
    >>]
>>

\* slice::sort_by(|a, b| a.0.cmp(&b.0)): a stable sort on the key; element i
\* goes after the elements with a smaller key and the earlier ones with an
\* equal key
sort_by_key(v) ==
    LET pos(i) == 1 + Cardinality({j \in DOMAIN v :
                          \/ StrLess(v[j].key, v[i].key)
                          \/ (v[j].key = v[i].key /\ j < i)})
    IN  [p \in DOMAIN v |-> v[CHOOSE i \in DOMAIN v : pos(i) = p]]

\* TAG_ALIASES.iter().flat_map(..).collect(): (alias, tag) pairs in table order
RECURSIVE AliasPairs(_)
AliasPairs(table) ==
    IF table = <<>> THEN <<>>
    ELSE [i \in DOMAIN Head(table).aliases |->
             Entry(Head(table).aliases[i], Head(table).tag)]
         \o AliasPairs(Tail(table))

\* for (alias, tag) in tag_aliases { tags_builder.insert_tag(alias, tag) }
RECURSIVE AliasInsertAll(_, _)
AliasInsertAll(builder, tag_aliases) ==
    IF tag_aliases = <<>> THEN [ret |-> "Ok", tb |-> builder]
    ELSE LET r == TagsBuilder_insert_tag(builder, Head(tag_aliases).key,
                                         Head(tag_aliases).val)
         IN  IF r.ret = "Ok" THEN AliasInsertAll(r.tb, Tail(tag_aliases)) ELSE r

\* ParserRegexes::default().alias_lookup
alias_lookup ==
    TagsBuilder_into_inner(
        AliasInsertAll(TagsBuilder_in_memory, sort_by_key(AliasPairs(TAG_ALIASES))).tb)

-----------------------------------------------------------------------------
(* Corpus text.  A line is a sequence of atoms; an atom is one of the       *)
(* pieces of text the code searches for:                                    *)
(*   open   "<page>"            close  "</page>"                            *)
(*   title  "<title>" t "</title>"  (t non-empty, without '<')              *)
(*   text   "<text"                                                         *)
(*   tpl    "{{" tok "}}" with tok matched by the capture group of          *)
(*          tag_regex: (?:en\-|head\|en\|)[^\|{}\d\.&]+                     *)
(*   plain  any other text                                                  *)

Atom(k, t, tok) == [k |-> k, t |-> t, tok |-> tok]

OPENING_PAGE == Atom("open", <<>>, <<>>)

CLOSING_PAGE == Atom("close", <<>>, <<>>)

TitleAtom(t) == Atom("title", t, <<>>)

TextAtom == Atom("text", <<>>, <<>>)

TplAtom(tok) == Atom("tpl", <<>>, tok)

PlainAtom == Atom("plain", <<>>, <<>>)

\* line.contains(marker)
Contains(line, marker) == \E i \in DOMAIN line : line[i] = marker

\* the page buffer as one text: the atoms of its lines in order
RECURSIVE Flatten(_)
Flatten(lines) ==
    IF lines = <<>> THEN <<>> ELSE Head(lines) \o Flatten(Tail(lines))

\* str::trim: leading and trailing whitespace (here: spaces) removed
RECURSIVE trim(_)
trim(tok) ==
    IF tok = <<>> THEN tok
    ELSE IF Head(tok) = 32 THEN trim(Tail(tok))
    ELSE IF tok[Len(tok)] = 32 THEN trim(SubSeq(tok, 1, Len(tok) - 1))
    ELSE tok

-----------------------------------------------------------------------------
(* src/bin/regenerate/parse.rs: parse_page *)

PageInfo(title, tags) == [title |-> title, tags |-> tags]

\* *tag_counter.entry(handle).or_default() += 1
CounterIncr(counter, handle) ==
    IF handle \in DOMAIN counter
    THEN [counter EXCEPT ![handle] = @ + 1]
    ELSE [h \in DOMAIN counter \cup {handle} |->
             IF h = handle THEN 1 ELSE counter[h]]

\* the captures_iter loop over the text after the body marker: every capture
\* is tallied, and ORed into tags when the alias table knows it
RECURSIVE ScanTags(_, _, _)
ScanTags(body, tags, counter) ==
    IF body = <<>> THEN [tags |-> tags, counter |-> counter]
    ELSE IF Head(body).k = "tpl"
         THEN LET handle == trim(Head(body).tok)
                  existing_tag_mask == fst_get(alias_lookup, handle)
              IN  ScanTags(Tail(body),
                           IF existing_tag_mask.some
                           THEN TagSet_insert_tag_mask(tags, AsU32(existing_tag_mask.bits))
                           ELSE tags,
                           CounterIncr(counter, handle))
         ELSE ScanTags(Tail(body), tags, counter)

FirstAtom(page_contents, k) ==
    SetMin({i \in DOMAIN page_contents : page_contents[i].k = k})

HasAtom(page_contents, k) == \E i \in DOMAIN page_contents : page_contents[i].k = k

\* mutant: the whole page text is scanned, not the part after the body marker
parse_page_scan_whole(counter, add_to, page_contents) ==
    IF ~HasAtom(page_contents, "title")
    THEN [ret |-> "Err", counter |-> counter, add_to |-> add_to]
    ELSE IF ~HasAtom(page_contents, "text")
    THEN [ret |-> "Ok", counter |-> counter, add_to |-> add_to]
    ELSE LET title == page_contents[FirstAtom(page_contents, "title")].t
             r == ScanTags(page_contents, TagSet_default, counter)
         IN  [ret |-> "Ok", counter |-> r.counter,
              add_to |-> Append(add_to, PageInfo(title, r.tags))]

\* mutant: a page without a title is skipped with Ok
parse_page_skip_titleless(counter, add_to, page_contents) ==
    IF ~HasAtom(page_contents, "title") \/ ~HasAtom(page_contents, "text")
    THEN [ret |-> "Ok", counter |-> counter, add_to |-> add_to]
    ELSE LET title == page_contents[FirstAtom(page_contents, "title")].t
             m_end == FirstAtom(page_contents, "text")
             r == ScanTags(SubSeq(page_contents, m_end + 1, Len(page_contents)),
                           TagSet_default, counter)
         IN  [ret |-> "Ok", counter |-> r.counter,
              add_to |-> Append(add_to, PageInfo(title, r.tags))]

\* mutant: the record is pushed outside the `if let Some(m)`, so a page
\* without a body marker yields a record with no tags
parse_page_push_without_body(counter, add_to, page_contents) ==
    IF ~HasAtom(page_contents, "title")
    THEN [ret |-> "Err", counter |-> counter, add_to |-> add_to]
    ELSE LET title == page_contents[FirstAtom(page_contents, "title")].t
         IN  IF ~HasAtom(page_contents, "text")
             THEN [ret |-> "Ok", counter |-> counter,
                   add_to |-> Append(add_to, PageInfo(title, TagSet_default))]
             ELSE LET m_end == FirstAtom(page_contents, "text")
                      r == ScanTags(SubSeq(page_contents, m_end + 1,
                                           Len(page_contents)),
                                    TagSet_default, counter)
                  IN  [ret |-> "Ok", counter |-> r.counter,
                       add_to |-> Append(add_to, PageInfo(title, r.tags))]

\* parse_page(regexes, tag_counter, add_to, page_contents)
parse_page(counter, add_to, page_contents) ==
    IF ~HasAtom(page_contents, "title")
    THEN [ret |-> "Err", counter |-> counter, add_to |-> add_to]
    ELSE IF ~HasAtom(page_contents, "text")
    THEN [ret |-> "Ok", counter |-> counter, add_to |-> add_to]
    ELSE LET title == page_contents[FirstAtom(page_contents, "title")].t
             m_end == FirstAtom(page_contents, "text")
             r == ScanTags(SubSeq(page_contents, m_end + 1, Len(page_contents)),
                           TagSet_default, counter)
         IN  [ret |-> "Ok", counter |-> r.counter,
              add_to |-> Append(add_to, PageInfo(title, r.tags))]

-----------------------------------------------------------------------------
(* src/bin/regenerate/regenerate.rs: build_fst_from_pages *)

\* mutant: only Noun is excluded
exclude_only_noun(opts) ==
    IF opts.exclude_pages_which_have_only_nouns
    THEN TagSet_insert_tag(TagSet_default, "Noun")
    ELSE TagSet_default

exclude_before_checking_empty(opts) ==
    IF opts.exclude_pages_which_have_only_nouns
    THEN TagSet_insert_tag(TagSet_insert_tag(TagSet_default, "Noun"), "ProperNoun")
    ELSE TagSet_default

\* mutant: the title is flattened but not lowercased
normalize_title_keep_case(opts, title) ==
    IF opts.flatten_unicode THEN unidecode(title) ELSE title

normalize_title(opts, title) ==
    IF opts.flatten_unicode
    THEN to_ascii_lowercase(unidecode(title))
    ELSE to_lowercase(title)

\* mutant: a passing record contributes its tags minus the exclusion mask
RECURSIVE filter_map_pages_store_filtered(_, _)
filter_map_pages_store_filtered(pgs, opts) ==
    IF pgs = <<>> THEN <<>>
    ELSE (IF TagSet_is_empty(TagSet_remove_tag_set(Head(pgs).tags,
                                 exclude_before_checking_empty(opts)))
          THEN <<>>
          ELSE <<Entry(normalize_title(opts, Head(pgs).title),
                       TagSet_remove_tag_set(Head(pgs).tags,
                           exclude_before_checking_empty(opts)))>>)
         \o filter_map_pages_store_filtered(Tail(pgs), opts)

\* the filter_map closure over pages.iter(): a record whose own tags minus
\* the exclusion mask are empty yields nothing, any other yields
\* (normalized title, tags)
RECURSIVE filter_map_pages(_, _)
filter_map_pages(pgs, opts) ==
    IF pgs = <<>> THEN <<>>
    ELSE (IF TagSet_is_empty(TagSet_remove_tag_set(Head(pgs).tags,
                                 exclude_before_checking_empty(opts)))
          THEN <<>>
          ELSE <<Entry(normalize_title(opts, Head(pgs).title), Head(pgs).tags)>>)
         \o filter_map_pages(Tail(pgs), opts)

\* acc.entry(title).or_default().extend(tag_set), folded over the items; the
\* HashMap is a function from its keys
RECURSIVE fold_hash_map(_, _)
fold_hash_map(acc, items) ==
    IF items = <<>> THEN acc
    ELSE LET title == Head(items).key
             old == IF title \in DOMAIN acc THEN acc[title] ELSE TagSet_default
             new == TagSet_extend(old, Head(items).val)
         IN  fold_hash_map([k \in DOMAIN acc \cup {title} |->
                               IF k = title THEN new ELSE acc[k]],
                           Tail(items))

EmptyMap == [k \in {} |-> TagSet_default]

\* the orders in which HashMap::into_iter may yield the keys
IterOrders(map) ==
    {o \in [1..Cardinality(DOMAIN map) -> DOMAIN map] :
        \A i, j \in DOMAIN o : i # j => o[i] # o[j]}

\* .into_iter().collect::<Vec<_>>() yielding the keys in the order `order`
collect_vec(map, order) == [i \in DOMAIN order |-> Entry(order[i], map[order[i]])]

merged_map(pgs, opts) == fold_hash_map(EmptyMap, filter_map_pages(pgs, opts))

\* mutant: the collected vector is handed over without sorting
build_fst_from_pages_unsorted(pgs, opts, order) ==
    LET sorted == collect_vec(merged_map(pgs, opts), order)
        r == TagsBuilder_extend_iter(TagsBuilder_in_memory, sorted)
    IN  [ret |-> r.ret,
         pages_sorted |-> sorted,
         artifact |-> [created |-> TRUE, finished |-> r.ret = "Ok",
                       entries |-> IF r.ret = "Ok" THEN TagsBuilder_finish(r.tb)
                                   ELSE r.tb]]

\* build_fst_from_pages(pages, options, fst_path) once the file is created;
\* `order` is the iteration order the HashMap happens to have
build_fst_from_pages(pgs, opts, order) ==
    LET sorted == sort_by_key(collect_vec(merged_map(pgs, opts), order))
        r == TagsBuilder_extend_iter(TagsBuilder_in_memory, sorted)
    IN  [ret |-> r.ret,
         pages_sorted |-> sorted,
         artifact |-> [created |-> TRUE, finished |-> r.ret = "Ok",
                       entries |-> IF r.ret = "Ok" THEN TagsBuilder_finish(r.tb)
                                   ELSE r.tb]]

-----------------------------------------------------------------------------
(* Inputs of a run.  The corpus is read as the run goes: `files` holds the  *)
(* lines consumed so far, file by file, and the next line is any line the  *)
(* kind of corpus allows.                                                  *)


\* "Run", "run", "walk", and "r" u-acute "n"
T_Run == <<82, 117, 110>>

T_run == <<114, 117, 110>>

T_walk == <<119, 97, 108, 107>>

T_ruun == <<114, 250, 110>>

\* "en-noun", "en-verb", "en-adj", "en-noun " (as in "{{en-noun |"), and
\* "en-timeline", which is no alias
K_noun == <<101, 110, 45, 110, 111, 117, 110>>

K_verb == <<101, 110, 45, 118, 101, 114, 98>>

K_adj == <<101, 110, 45, 97, 100, 106>>

K_noun_sp == <<101, 110, 45, 110, 111, 117, 110, 32>>

K_timeline == <<101, 110, 45, 116, 105, 109, 101, 108, 105, 110, 101>>

\* the lines an arbitrary corpus file is made of
CorpusLines ==
    { <<OPENING_PAGE>>,
      <<CLOSING_PAGE>>,
      <<TitleAtom(T_Run)>>,
      <<TextAtom, TplAtom(K_verb)>>,
      <<TplAtom(K_adj)>>,
      <<TitleAtom(T_ruun), TextAtom, TplAtom(K_noun_sp), TplAtom(K_timeline)>> }

\* a well-formed page is four lines: opening marker, title, body, closing
\* marker
WFTitles == {T_Run, T_run, T_walk}

WFBodies == {<<K_noun, K_verb>>, <<K_verb>>, <<K_noun>>}

WFTitleLines == {<<TitleAtom(t)>> : t \in WFTitles}

WFBodyLines == {<<TextAtom>> \o [i \in DOMAIN b |-> TplAtom(b[i])] : b \in WFBodies}

RECURSIVE TotalLines(_)
TotalLines(fs) == IF fs = <<>> THEN 0 ELSE Len(Head(fs)) + TotalLines(Tail(fs))

\* the lines the current file may continue with
NextLines ==
    LET n == Len(files[Len(files)])
    IN  IF corpus = "arbitrary"
        THEN (IF TotalLines(files) < MaxLines THEN CorpusLines ELSE {})
        ELSE IF n >= 4 * MaxWFPages THEN {}
        ELSE CASE n % 4 = 0 -> {<<OPENING_PAGE>>}
               [] n % 4 = 1 -> WFTitleLines
               [] n % 4 = 2 -> WFBodyLines
               [] n % 4 = 3 -> {<<CLOSING_PAGE>>}

\* the current file may end here
MayEnd == corpus = "arbitrary" \/ Len(files[Len(files)]) % 4 = 0

\* there may be a further argument
MayOpen == Len(files) < (IF corpus = "arbitrary" THEN MaxFiles ELSE 1)

-----------------------------------------------------------------------------
(* src/bin/regenerate/regenerate.rs: main *)

\* mutant: the buffer and the flag are declared before the loop over the
\* arguments, so they live on from one file to the next
OpenFile_shared_state ==
    /\ pc = "args"
    /\ MayOpen
    /\ files' = Append(files, <<>>)
    /\ pc' = "lines"
    /\ UNCHANGED <<corpus, page, is_inside_page, pages, tag_counter, options,
                   pages_sorted, artifact, err, emitted>>
    /\ UNCHANGED <<libVars, tagVars>>

\* for file_to_parse in env::args().skip(1): File::open succeeded
OpenFile ==
    /\ pc = "args"
    /\ MayOpen
    /\ files' = Append(files, <<>>)
    /\ page' = <<>>
    /\ is_inside_page' = FALSE
    /\ pc' = "lines"
    /\ UNCHANGED <<corpus, pages, tag_counter, options, pages_sorted, artifact,
                   err, emitted>>
    /\ UNCHANGED <<libVars, tagVars>>

\* File::open(file_to_parse)? returned an error
OpenFail ==
    /\ pc = "args"
    /\ MayOpen
    /\ pc' = "aborted"
    /\ err' = "Io"
    /\ UNCHANGED <<corpus, files, page, is_inside_page, pages, tag_counter,
                   options, pages_sorted, artifact, emitted>>
    /\ UNCHANGED <<libVars, tagVars>>

\* one turn of `for line in buffer.lines()` with a line read successfully
ReadLine ==
    /\ pc = "lines"
    /\ \E line \in NextLines :
         /\ files' = [files EXCEPT ![Len(files)] = Append(@, line)]
         /\ IF ~is_inside_page /\ Contains(line, OPENING_PAGE)
            THEN /\ is_inside_page' = TRUE
                 /\ UNCHANGED <<page, pages, tag_counter, pc, err, emitted>>
            ELSE IF Contains(line, CLOSING_PAGE)
            THEN LET r == parse_page(tag_counter, pages, Flatten(page))
                 IN  /\ emitted' = Append(emitted, page)
                     /\ pages' = r.add_to
                     /\ tag_counter' = r.counter
                     /\ IF r.ret = "Ok"
                        THEN /\ page' = <<>>
                             /\ is_inside_page' = FALSE
                             /\ UNCHANGED <<pc, err>>
                        ELSE /\ pc' = "aborted"
                             /\ err' = "InvalidPage"
                             /\ UNCHANGED <<page, is_inside_page>>
            ELSE /\ page' = Append(page, line)
                 /\ UNCHANGED <<is_inside_page, pages, tag_counter, pc, err, emitted>>
    /\ UNCHANGED <<corpus, options, pages_sorted, artifact>>
    /\ UNCHANGED <<libVars, tagVars>>

\* mutant: a read error ends the reading and main goes on to build
ReadFail_build_anyway ==
    /\ pc = "lines"
    /\ pc' = "build"
    /\ err' = "Io"
    /\ UNCHANGED <<corpus, files, page, is_inside_page, pages, tag_counter,
                   options, pages_sorted, artifact, emitted>>
    /\ UNCHANGED <<libVars, tagVars>>

\* `let line = line?` returned an I/O error
ReadFail ==
    /\ pc = "lines"
    /\ pc' = "aborted"
    /\ err' = "Io"
    /\ UNCHANGED <<corpus, files, page, is_inside_page, pages, tag_counter,
                   options, pages_sorted, artifact, emitted>>
    /\ UNCHANGED <<libVars, tagVars>>

\* mutant: at end of input the page still open is handed over as well
EndOfFile_flush ==
    /\ pc = "lines"
    /\ MayEnd
    /\ pc' = "args"
    /\ IF is_inside_page
       THEN LET r == parse_page(tag_counter, pages, Flatten(page))
            IN  /\ emitted' = Append(emitted, page)
                /\ pages' = r.add_to
                /\ tag_counter' = r.counter
       ELSE UNCHANGED <<emitted, pages, tag_counter>>
    /\ UNCHANGED <<corpus, files, page, is_inside_page,
                   options, pages_sorted, artifact, err>>
    /\ UNCHANGED <<libVars, tagVars>>

\* buffer.lines() is exhausted: on to the next argument
EndOfFile ==
    /\ pc = "lines"
    /\ MayEnd
    /\ pc' = "args"
    /\ UNCHANGED <<corpus, files, page, is_inside_page, pages, tag_counter,
                   options, pages_sorted, artifact, err, emitted>>
    /\ UNCHANGED <<libVars, tagVars>>

\* the arguments are exhausted: main goes on to build_fst_from_pages
EndOfArgs ==
    /\ pc = "args"
    /\ pc' = "build"
    /\ UNCHANGED <<corpus, files, page, is_inside_page, pages, tag_counter,
                   options, pages_sorted, artifact, err, emitted>>
    /\ UNCHANGED <<libVars, tagVars>>

\* build_fst_from_pages(pages.as_slice(), options, fst_path)? without I/O error
BuildFst ==
    /\ pc = "build"
    /\ \E order \in IterOrders(merged_map(pages, options)) :
         LET r == build_fst_from_pages(pages, options, order)
         IN  /\ pages_sorted' = r.pages_sorted
             /\ artifact' = r.artifact
             /\ pc' = IF r.ret = "Ok" THEN "done" ELSE "aborted"
             /\ err' = IF r.ret = "Ok" THEN err ELSE "Fst"
    /\ UNCHANGED <<corpus, files, page, is_inside_page, pages, tag_counter,
                   options, emitted>>
    /\ UNCHANGED <<libVars, tagVars>>

\* File::create(fst_path)? or TagsBuilder::new(w)? failed (nothing written),
\* or a write to the created file failed
BuildIoFail ==
    /\ pc = "build"
    /\ \E created \in BOOLEAN :
         artifact' = [created |-> created, finished |-> FALSE, entries |-> <<>>]
    /\ pc' = "aborted"
    /\ err' = "Io"
    /\ UNCHANGED <<corpus, files, page, is_inside_page, pages, tag_counter,
                   options, pages_sorted, emitted>>
    /\ UNCHANGED <<libVars, tagVars>>

\* lib.rs: ENGLISH_TAG_LOOKUP.get(word) on the artifact of the run
lookup(word) == TagsLookup_get(TagsLookup_new(artifact.entries), word)

-----------------------------------------------------------------------------
(* Specification of a build run *)

Init ==
    /\ corpus \in {"arbitrary", "well_formed"}
    /\ files = <<>>
    /\ page = <<>>
    /\ is_inside_page = FALSE
    /\ pages = <<>>
    /\ tag_counter = <<>>
    /\ options = MainOptions
    /\ pages_sorted = <<>>
    /\ artifact = NoArtifact
    /\ pc = "args"
    /\ err = "none"
    /\ emitted = <<>>
    /\ LibIdle
    /\ TagIdle

Next ==
    \/ OpenFile
    \/ OpenFail
    \/ ReadLine
    \/ ReadFail
    \/ EndOfFile
    \/ EndOfArgs
    \/ BuildFst
    \/ BuildIoFail

Spec == Init /\ [][Next]_vars

-----------------------------------------------------------------------------
(* Specification of build_fst_from_pages on any collection of page records *)

\* "Cat", "c" a-acute "t", "bat"
T_Cat == <<67, 97, 116>>

T_caat == <<99, 225, 116>>

T_bat == <<98, 97, 116>>

\* "cat": what "Cat" normalizes to, and "c" a-acute "t" when flattened
T_cat == <<99, 97, 116>>

AggTitles == {T_Cat, T_caat, T_bat}

AggTagSets == {TagSet_of(<<>>), TagSet_of(<<"Verb">>),
               TagSet_of(<<"Noun", "Verb">>), TagSet_of(<<"Noun", "ProperNoun">>)}

AggRecords == {PageInfo(t, ts) : t \in AggTitles, ts \in AggTagSets}

AggOptions == [exclude_pages_which_have_only_nouns : BOOLEAN,
               flatten_unicode : BOOLEAN]

InitAgg ==
    /\ corpus = "none"
    /\ files = <<>>
    /\ page = <<>>
    /\ is_inside_page = FALSE
    /\ pages \in SeqsUpTo(AggRecords, MaxPages)
    /\ tag_counter = <<>>
    /\ options \in AggOptions
    /\ pages_sorted = <<>>
    /\ artifact = NoArtifact
    /\ pc = "build"
    /\ err = "none"
    /\ emitted = <<>>
    /\ LibIdle
    /\ TagIdle

NextAgg == BuildFst

SpecAgg == InitAgg /\ [][NextAgg]_vars

Ascending(entries) ==
    \A i \in 1..(Len(entries) - 1) : StrLess(entries[i].key, entries[i + 1].key)

\* C4: whatever the records, their order and their duplicates, the vector
\* handed to extend_iter has its titles in strictly ascending byte order
\* (so pairwise distinct), the builder never reports an ordering error, and
\* the keys of the artifact are strictly increasing.
C4_SortedUnique ==
    /\ Ascending(pages_sorted)
    /\ err # "Fst"
    /\ Ascending(artifact.entries)
    /\ pc = "done" => artifact.entries = pages_sorted

\* three records given in descending key order, two of them with one key
C4_Witness ==
    /\ pc = "done"
    /\ options.flatten_unicode
    /\ pages = <<PageInfo(T_caat, TagSet_of(<<"Verb">>)),
                 PageInfo(T_Cat, TagSet_of(<<"Noun", "Verb">>)),
                 PageInfo(T_bat, TagSet_of(<<"Verb">>))>>
    /\ Len(artifact.entries) = 2
    /\ artifact.entries[1].key = T_bat
    /\ artifact.entries[2].key = T_cat

\* the titles a lookup is tried with: every title given and every title a
\* given title normalizes to
AggProbes == AggTitles \cup {normalize_title(o, t) : o \in AggOptions, t \in AggTitles}

NounMask == {6, 12}

\* the records of the input whose title normalizes to k
RecordsOf(k) == {i \in DOMAIN pages : normalize_title(options, pages[i].title) = k}

UnionOf(S) == UNION {pages[i].tags : i \in S}

\* C3: with exclude_pages_which_have_only_nouns enabled, k is a key of the
\* artifact if and only if some record normalizing to k has a tag other than
\* Noun and ProperNoun; a title whose records carry only Noun and/or
\* ProperNoun, or no tag, is absent.
C3_KeyPresence ==
    (pc = "done" /\ options.exclude_pages_which_have_only_nouns) =>
        \A k \in AggProbes :
            lookup(k).some <=>
                \E i \in RecordsOf(k) :
                    \E tag \in Tags \ {"Noun", "ProperNoun"} :
                        TagIndex(tag) \in pages[i].tags

\* "bat" carries only Noun and ProperNoun and is absent, "cat" is present
C3_Witness ==
    /\ pc = "done"
    /\ options.exclude_pages_which_have_only_nouns
    /\ pages = <<PageInfo(T_bat, TagSet_of(<<"Noun", "ProperNoun">>)),
                 PageInfo(T_bat, TagSet_of(<<>>)),
                 PageInfo(T_Cat, TagSet_of(<<"Noun", "Verb">>))>>
    /\ ~lookup(T_bat).some
    /\ lookup(T_cat).some

\* C2 as stated: the TagSets of all records with normalized title k are
\* merged; k is kept exactly when the merged set minus {Noun, ProperNoun} is
\* non-empty, and the value stored is then the full merged set.
C2_MergeThenFilter ==
    (pc = "done" /\ options.exclude_pages_which_have_only_nouns) =>
        \A k \in AggProbes :
            LET merged == UnionOf(RecordsOf(k))
            IN  IF merged \ NounMask # {}
                THEN lookup(k) = Some(merged)
                ELSE lookup(k) = NoVal

\* C2 amended: k is kept exactly when the merged set of all its records minus
\* {Noun, ProperNoun} is non-empty, and the value stored is then the union
\* of the TagSets of those of its records whose own set minus
\* {Noun, ProperNoun} is non-empty.
C2_FilterThenMerge ==
    (pc = "done" /\ options.exclude_pages_which_have_only_nouns) =>
        \A k \in AggProbes :
            LET merged == UnionOf(RecordsOf(k))
                passing == {i \in RecordsOf(k) : pages[i].tags \ NounMask # {}}
            IN  IF merged \ NounMask # {}
                THEN lookup(k) = Some(UnionOf(passing))
                ELSE lookup(k) = NoVal

\* a record with only Noun and ProperNoun shares its key with two that pass:
\* its ProperNoun bit is not stored, the Noun bit of a passing one is
C2_Witness ==
    /\ pc = "done"
    /\ options.exclude_pages_which_have_only_nouns
    /\ options.flatten_unicode
    /\ pages = <<PageInfo(T_Cat, TagSet_of(<<"Noun", "ProperNoun">>)),
                 PageInfo(T_caat, TagSet_of(<<"Verb">>)),
                 PageInfo(T_Cat, TagSet_of(<<"Noun", "Verb">>))>>
    /\ lookup(T_cat) = Some(TagSet_of(<<"Noun", "Verb">>))

-----------------------------------------------------------------------------
(* Claims about a build run *)

\* the pages of a corpus file of well-formed pages, as (title, body tokens)
WFInputPages ==
    IF files = <<>> THEN {}
    ELSE {[title |-> files[1][4 * p + 2][1].t,
           body |-> [i \in 1..(Len(files[1][4 * p + 3]) - 1) |->
                        files[1][4 * p + 3][i + 1].tok]] :
             p \in 0..((Len(files[1]) \div 4) - 1)}

PageRunNounVerb == [title |-> T_Run, body |-> <<K_noun, K_verb>>]

PageRunVerb == [title |-> T_run, body |-> <<K_verb>>]

Lowercased(title) == [i \in DOMAIN title |->
                         IF title[i] \in 65..90 THEN title[i] + 32 ELSE title[i]]

\* C1: on a corpus of well-formed pages with a page "Run" of body
\* {{en-noun}} {{en-verb}} and a page "run" of body {{en-verb}} (and no other
\* page of these titles), the finished artifact answers lookup("run") with
\* exactly {Noun, Verb}; and lookup(w) is absent for every word w that is
\* the normalized title of no page of the corpus.
C1_EndToEnd ==
    (pc = "done" /\ corpus = "well_formed") =>
        /\ (/\ PageRunNounVerb \in WFInputPages
            /\ PageRunVerb \in WFInputPages
            /\ \A pg \in WFInputPages :
                   pg.title \in {T_Run, T_run} => pg \in {PageRunNounVerb, PageRunVerb})
           => lookup(T_run) = Some(TagSet_of(<<"Noun", "Verb">>))
        /\ \A w \in WFTitles :
               (\A pg \in WFInputPages : Lowercased(pg.title) # w)
                   => lookup(w) = NoVal

C1_Witness ==
    /\ pc = "done"
    /\ corpus = "well_formed"
    /\ WFInputPages = {PageRunNounVerb, PageRunVerb}
    /\ files[1][2][1].t = T_Run
    /\ lookup(T_run) = Some({6, 13})
    /\ lookup(T_walk) = NoVal
    /\ lookup(T_Run) = NoVal

\* this step hands a page text to parse_page
HandsPage == Len(emitted') = Len(emitted) + 1

HandedPage == Flatten(emitted'[Len(emitted')])

\* C9 as stated: a page without a title is skipped, no record is added, and
\* the run goes on with the following lines; it does not abort.
C9_Step_Skipped ==
    (HandsPage /\ ~HasAtom(HandedPage, "title")) =>
        /\ pages' = pages
        /\ pc' = "lines"
        /\ err' = "none"
        /\ page' = <<>>

C9_TitlelessSkipped == [][C9_Step_Skipped]_vars

\* C9 amended: a page without a title adds no record and tallies no token,
\* and it aborts the run: main returns the error of parse_page, no further
\* line is read, build_fst_from_pages is not called and no artifact is made.
C9_Step_Aborts ==
    /\ (HandsPage /\ ~HasAtom(HandedPage, "title")) =>
           /\ pages' = pages
           /\ tag_counter' = tag_counter
           /\ pc' = "aborted"
           /\ err' = "InvalidPage"
    /\ err = "InvalidPage" => FALSE
    /\ err' = "InvalidPage" => artifact' = NoArtifact

C9_TitlelessAborts == [][C9_Step_Aborts]_vars

\* a page with a body and a template but no title, after a page that parsed
C9_Witness ==
    /\ pc = "aborted"
    /\ err = "InvalidPage"
    /\ Len(emitted) = 2
    /\ Len(pages) = 1
    /\ emitted[2] = << <<TextAtom, TplAtom(K_verb)>> >>
    /\ artifact = NoArtifact

\* C10: a page with a title but no body marker is skipped: parse_page
\* returns Ok, the record list and the token counter stay as they were, the
\* buffer is cleared and the run goes on with the following lines.
C10_Step ==
    (/\ HandsPage
     /\ HasAtom(HandedPage, "title")
     /\ ~HasAtom(HandedPage, "text")) =>
        /\ pages' = pages
        /\ tag_counter' = tag_counter
        /\ pc' = "lines"
        /\ err' = "none"
        /\ page' = <<>>
        /\ is_inside_page' = FALSE

C10_NoBodySkipped == [][C10_Step]_vars

\* a page with a title and a template but no body marker was handed over
\* and left no record and no tally; the line after it has been read
C10_Witness ==
    /\ pc = "lines"
    /\ Len(emitted) = 1
    /\ emitted[1] = << <<TitleAtom(T_Run)>>, <<TplAtom(K_adj)>> >>
    /\ pages = <<>>
    /\ tag_counter = <<>>
    /\ Len(page) = 1
    /\ HasAtom(page[1], "text")

-----------------------------------------------------------------------------
(* Claims about the page stream of main *)

\* the file being read after the step, and the page text the step handed over
\* (as the list of its lines)
FileRead == files'[Len(files')]

HandedLines == emitted'[Len(emitted')]

IsMarkerLine(line) == Contains(line, OPENING_PAGE) \/ Contains(line, CLOSING_PAGE)

\* C11: every page text handed to parse_page is exactly the lines strictly
\* between an opening-marker line and the closing-marker line that hands it
\* over, in order; no marker line and no line outside such a pair is part
\* of it; and while the run goes on the buffer is empty right after the
\* hand-off.
C11_Step ==
    HandsPage =>
        LET c == Len(FileRead)
        IN  /\ \E o \in 1..(c - 1) :
                   /\ Contains(FileRead[o], OPENING_PAGE)
                   /\ HandedLines = SubSeq(FileRead, o + 1, c - 1)
            /\ \A i \in DOMAIN HandedLines : ~IsMarkerLine(HandedLines[i])
            /\ pc' = "lines" => page' = <<>>

C11_PageBoundaries == [][C11_Step]_vars

\* the marker lines of a file in order: "o" for an opening-marker line, "c"
\* for a closing-marker line
RECURSIVE MarkerKinds(_)
MarkerKinds(f) ==
    IF f = <<>> THEN <<>>
    ELSE (IF Contains(Head(f), OPENING_PAGE) THEN <<"o">>
          ELSE IF Contains(Head(f), CLOSING_PAGE) THEN <<"c">>
          ELSE <<>>)
         \o MarkerKinds(Tail(f))

\* the markers of the file pair up: opening, closing, opening, ...
WellDelimited(f) ==
    \A i \in DOMAIN MarkerKinds(f) :
        MarkerKinds(f)[i] = (IF i % 2 = 1 THEN "o" ELSE "c")

\* the last opening marker of the file has no closing marker after it
Unterminated(f) == WellDelimited(f) /\ Len(MarkerKinds(f)) % 2 = 1

OpeningLines(f) == Cardinality({i \in DOMAIN f : Contains(f[i], OPENING_PAGE)})

\* the pages the files should hand over: one per opening-marker line, less
\* one for a file that ends in an unterminated page
RECURSIVE ExpectedPages(_)
ExpectedPages(fs) ==
    IF fs = <<>> THEN 0
    ELSE OpeningLines(Head(fs)) - (IF Unterminated(Head(fs)) THEN 1 ELSE 0)
         + ExpectedPages(Tail(fs))

\* C12: once the files are read to their end, a file whose pages are
\* delimited by pairs of markers and whose last page is unterminated has
\* handed over exactly one page fewer than it has opening-marker lines (a
\* file without unterminated page: as many); nothing is handed over at
\* end-of-input.
C12_PageCount ==
    (/\ pc \in {"args", "build", "done"}
     /\ \A i \in DOMAIN files : WellDelimited(files[i])) =>
        Len(emitted) = ExpectedPages(files)

\* a file of one complete page and one opening marker was read to its end
C12_Witness ==
    /\ pc = "args"
    /\ Len(files) = 1
    /\ MarkerKinds(files[1]) = <<"o", "c", "o">>
    /\ Unterminated(files[1])
    /\ is_inside_page
    /\ Len(emitted) = 1
    /\ Len(pages) = 1

\* C13: the artifact is created and written only by build_fst_from_pages,
\* which main reaches only from the end of the argument loop, every file
\* opened having been read to its end; a failure to open or to read a corpus
\* file aborts the run at that point with nothing created, and an aborted
\* run takes no further step, so it leaves no artifact.
C13_Step ==
    /\ artifact' # artifact => pc = "build"
    /\ pc \in {"args", "lines"} => artifact = NoArtifact
    /\ (pc' = "build" /\ pc # "build") => (pc = "args" /\ err = "none")
    /\ (pc \in {"args", "lines"} /\ err' = "Io") =>
           /\ pc' = "aborted"
           /\ artifact' = NoArtifact
           /\ pages' = pages
    /\ pc = "aborted" => FALSE

C13_NoPartialArtifact == [][C13_Step]_vars

\* a read error after a page was extracted: aborted, nothing created
C13_Witness ==
    /\ pc = "aborted"
    /\ err = "Io"
    /\ Len(pages) >= 1
    /\ Len(files) = 2
    /\ files[2] # <<>>
    /\ artifact = NoArtifact

-----------------------------------------------------------------------------
(* Claims about build_fst_from_pages, continued *)

\* the exclusion mask the options stand for: {Noun, ProperNoun} or nothing
MaskOf(opts) ==
    IF opts.exclude_pages_which_have_only_nouns
    THEN {TagIndex("Noun"), TagIndex("ProperNoun")}
    ELSE {}

\* the records normalizing to k that pass the test on their own
PassingOf(k) == {i \in RecordsOf(k) : pages[i].tags \ MaskOf(options) # {}}

\* C14: each record is tested on its own: one whose tags minus the exclusion
\* mask are empty contributes to no entry, one that passes contributes its
\* whole TagSet; so for every key k the artifact holds k exactly when some
\* record of k passes, with the union of the unfiltered TagSets of exactly
\* the passing records of k, and the vector handed to the builder holds the
\* same.
C14_PerRecordExclusion ==
    pc = "done" =>
        /\ \A k \in AggProbes :
               lookup(k) = IF PassingOf(k) = {} THEN NoVal
                           ELSE Some(UnionOf(PassingOf(k)))
        /\ \A j \in DOMAIN pages_sorted :
               /\ PassingOf(pages_sorted[j].key) # {}
               /\ pages_sorted[j].val = UnionOf(PassingOf(pages_sorted[j].key))

\* "Cat" {Noun, ProperNoun} is dropped and gives no bit; "Cat" {Noun, Verb}
\* passes and keeps its Noun bit; "bat" with no tag is dropped
C14_Witness ==
    /\ pc = "done"
    /\ options.exclude_pages_which_have_only_nouns
    /\ ~options.flatten_unicode
    /\ pages = <<PageInfo(T_Cat, TagSet_of(<<"Noun", "ProperNoun">>)),
                 PageInfo(T_Cat, TagSet_of(<<"Noun", "Verb">>)),
                 PageInfo(T_bat, TagSet_of(<<>>))>>
    /\ pages_sorted = <<Entry(T_cat, TagSet_of(<<"Noun", "Verb">>))>>
    /\ lookup(T_bat) = NoVal

-----------------------------------------------------------------------------
(* Specification of parse_page on any page text: the hand-off of main       *)
(* (regenerate.rs lines 60-64) with a page buffer of any content            *)

ParseAtoms == {TitleAtom(T_Run), TextAtom, PlainAtom, TplAtom(K_verb),
               TplAtom(K_adj), TplAtom(K_noun_sp), TplAtom(K_timeline)}

\* the tally the call starts with: nothing yet, or "en-verb" seen once
ParseCounters == {<<>>, CounterIncr(<<>>, K_verb)}

InitParse ==
    /\ corpus = "none"
    /\ files = <<>>
    /\ page \in {<<contents>> : contents \in SeqsUpTo(ParseAtoms, MaxAtoms)}
    /\ is_inside_page = TRUE
    /\ pages = <<>>
    /\ tag_counter \in ParseCounters
    /\ options = MainOptions
    /\ pages_sorted = <<>>
    /\ artifact = NoArtifact
    /\ pc = "parse"
    /\ err = "none"
    /\ emitted = <<>>
    /\ LibIdle
    /\ TagIdle

\* parse::parse_page(&parser_regexes, &mut tag_counter, &mut pages, &page)?;
\* page.clear(); is_inside_page = false
ParsePage ==
    /\ pc = "parse"
    /\ LET r == parse_page(tag_counter, pages, Flatten(page))
       IN  /\ emitted' = Append(emitted, page)
           /\ pages' = r.add_to
           /\ tag_counter' = r.counter
           /\ IF r.ret = "Ok"
              THEN /\ page' = <<>>
                   /\ is_inside_page' = FALSE
                   /\ pc' = "parsed"
                   /\ UNCHANGED err
              ELSE /\ pc' = "aborted"
                   /\ err' = "InvalidPage"
                   /\ UNCHANGED <<page, is_inside_page>>
    /\ UNCHANGED <<corpus, files, options, pages_sorted, artifact>>
    /\ UNCHANGED <<libVars, tagVars>>

NextParse == ParsePage

SpecParse == InitParse /\ [][NextParse]_vars

\* how often the token h is tallied in a counter
Tally(counter, h) == IF h \in DOMAIN counter THEN counter[h] ELSE 0

\* the positions of the template tokens after the first body marker
BodyTokens(text) ==
    IF ~HasAtom(text, "text") THEN {}
    ELSE {i \in DOMAIN text : i > FirstAtom(text, "text") /\ text[i].k = "tpl"}

\* the tokens of the page texts and what the alias table of parse.rs makes
\* of them: "en-verb", "en-adj" and "en-noun" resolve, "en-timeline" does not
TokenBits(h) ==
    IF h = K_verb THEN {TagIndex("Verb")}
    ELSE IF h = K_adj THEN {TagIndex("Adjective")}
    ELSE IF h = K_noun THEN {TagIndex("Noun")}
    ELSE {}

ParseHandles == {K_verb, K_adj, K_noun, K_noun_sp, K_timeline}

\* C15: parse_page scans only the text after the first body marker: for a
\* page with a title and a body marker, every token h is tallied as many
\* times more as it occurs (trimmed) among the templates after the marker,
\* whether or not it resolves to a Tag, and the record pushed carries exactly
\* the bits of the tokens after the marker; a template before the marker
\* gives no bit and no tally.
C15_Step ==
    (/\ HandsPage
     /\ HasAtom(HandedPage, "title")
     /\ HasAtom(HandedPage, "text")) =>
        /\ \A h \in ParseHandles :
               Tally(tag_counter', h) =
                   Tally(tag_counter, h)
                   + Cardinality({i \in BodyTokens(HandedPage) :
                                     trim(HandedPage[i].tok) = h})
        /\ DOMAIN tag_counter' \subseteq ParseHandles
        /\ pages' = Append(pages,
               PageInfo(HandedPage[FirstAtom(HandedPage, "title")].t,
                        UNION {TokenBits(trim(HandedPage[i].tok)) :
                                  i \in BodyTokens(HandedPage)}))

C15_BodyOnly == [][C15_Step]_vars

\* {{en-adj}} before the body marker, {{en-timeline}} after it: the record
\* has no tag, and only "en-timeline" is tallied
C15_Witness ==
    /\ pc = "parsed"
    /\ emitted = << << <<TplAtom(K_adj), TitleAtom(T_Run), TextAtom,
                        TplAtom(K_timeline)>> >> >>
    /\ pages = <<PageInfo(T_Run, {})>>
    /\ Tally(tag_counter, K_timeline) = 1
    /\ Tally(tag_counter, K_adj) = 0

-----------------------------------------------------------------------------
(* Claims about the TagSets of a build run *)

\* the bits that stand for a Tag
DefinedBits == {TagIndex(tag) : tag \in Tags}

\* the value has only bits of defined Tags, and TagSet::tags() on it yields
\* Tags without reaching the panic arm of Tag::from_u32
Defined(tag_set) ==
    LET tags == TagSet_tags(tag_set)
    IN  /\ tag_set \subseteq DefinedBits
        /\ \A i \in DOMAIN tags : tags[i] \in Tags
        /\ Len(tags) = Cardinality(tag_set)

\* the words a lookup is tried with after a run
RunProbes == {T_Run, T_run, T_walk, T_ruun,
              normalize_title(MainOptions, T_ruun)}

\* C16: every TagSet of the pipeline has only bits of the 13 defined Tags
\* and TagSet::tags() on it does not panic: the values of the alias table,
\* the TagSets of the page records, the merged TagSets handed to the
\* builder, the values stored in the artifact and the values read back by
\* TagsLookup::get.  (The alias table is built once, before the first file
\* is opened, and is looked at there.)
C16_DefinedBits ==
    /\ files = <<>> =>
           \A i \in DOMAIN alias_lookup : Defined(AsU32(alias_lookup[i].val))
    /\ \A i \in DOMAIN pages : Defined(pages[i].tags)
    /\ \A i \in DOMAIN pages_sorted : Defined(pages_sorted[i].val)
    /\ \A i \in DOMAIN artifact.entries : Defined(AsU32(artifact.entries[i].val))
    /\ artifact.finished =>
           \A w \in RunProbes : lookup(w).some => Defined(lookup(w).bits)

\* a run over arbitrary lines with the page "Run" of body {{en-verb}} stored
\* {Verb} for "run", and tags() on the value read back lists that Tag
C16_Witness ==
    /\ corpus = "arbitrary"
    /\ pc = "done"
    /\ files = << << <<OPENING_PAGE>>, <<TitleAtom(T_Run)>>,
                     <<TextAtom, TplAtom(K_verb)>>, <<CLOSING_PAGE>> >> >>
    /\ lookup(T_run).some
    /\ TagSet_tags(lookup(T_run).bits) = <<"Verb">>

-----------------------------------------------------------------------------
(* Claims about runs over several files *)

\* a is b with some of its elements left out
RECURSIVE IsSubsequence(_, _)
IsSubsequence(a, b) ==
    IF a = <<>> THEN TRUE
    ELSE IF b = <<>> THEN FALSE
    ELSE IF Head(a) = Head(b) THEN IsSubsequence(Tail(a), Tail(b))
    ELSE IsSubsequence(a, Tail(b))

\* C17: the page buffer and the inside-page flag start empty and false with
\* each file opened, and every page text handed over is made of lines of
\* the file being read only, in their order, so nothing left in the buffer
\* at the end of an earlier file is part of it or supplies its title.
C17_Step ==
    /\ Len(files') = Len(files) + 1 =>
           /\ page' = <<>>
           /\ is_inside_page' = FALSE
    /\ HandsPage =>
           LET c == Len(FileRead)
           IN  /\ IsSubsequence(HandedLines, SubSeq(FileRead, 1, c - 1))
               /\ (pages' # pages =>
                      \E i \in 1..(c - 1) : \E j \in DOMAIN FileRead[i] :
                          /\ FileRead[i][j].k = "title"
                          /\ FileRead[i][j].t = pages'[Len(pages')].title)

C17_PerFileState == [][C17_Step]_vars

\* the first file ends inside a page that holds a title; the second file is
\* an opening and a closing marker: the page handed over is empty and has no
\* title, which parse_page reports
C17_Witness ==
    /\ files = << << <<OPENING_PAGE>>, <<TitleAtom(T_Run)>> >>,
                  << <<OPENING_PAGE>>, <<CLOSING_PAGE>> >> >>
    /\ emitted = << <<>> >>
    /\ pages = <<>>
    /\ pc = "aborted"
    /\ err = "InvalidPage"

====
